---- MODULE Spec2Model ----
(***************************************************************************)
(* A model of the dual_contouring kernel: Morton keys and octree topology  *)
(* (morton.rs, geom.rs, topology.rs), segment classification and bisection *)
(* (source.rs) and the indexed mesh sink (extractor.rs).                   *)
(*                                                                         *)
(* Numbers.  f32 scalars and Vec3 components are modelled as integers on a *)
(* fixed-point lattice.  The code inspects a sampled value only through    *)
(* `abs() <= epsilon` and `is_sign_negative()`, so a NaN or an infinity    *)
(* behaves like a large value carrying a sign bit, and -0.0 is always      *)
(* caught by the epsilon test before its sign is read.  The midpoint       *)
(* (a + b) / 2.0 rounds to the lattice, as an f32 midpoint rounds to a     *)
(* representable value.                                                    *)
(***************************************************************************)
EXTENDS Integers, Sequences, FiniteSets, TLC

VARIABLES
  \* ---- octree: morton.rs / topology.rs
  key,        \* the MortonKey a caller holds
  path,       \* the corner masks of the child() steps that produced `key`
  new_call,   \* <<>> or <<ret>>: what OctreeCell::new(key) returned
  faces,      \* <<>> or what interior_faces() yielded for the cell of `key`
  \* ---- source: source.rs
  field,      \* the samples of the (pure) field taken so far: point -> value
  epsilon,    \* the tolerance passed to classify_segment / find_intersection
  cs,         \* <<>> or <<[start, end, ret]>>: the last classify_segment call
  pc,         \* position of find_intersection: "idle", "loop" or "done"
  a, b,       \* the bracket of the bisection
  v_a, v_b,   \* the samples at the bracket's ends
  it,         \* completed iterations of `for _ in 0..max_iter`
  max_iter,   \* the iteration budget of the running call
  evals,      \* midpoint evaluations made by the loop body
  result,     \* <<>> or <<Result<Sample, FindIntersectionError>>>
  \* ---- extractor: extractor.rs
  positions,  \* buf.vertices.positions
  normals,    \* buf.vertices.normals
  buf_faces,  \* buf.faces
  normal_at,  \* the normals of the (pure) Hermite source sampled so far
  call,       \* <<>> or <<[op, arg]>>: the last Extractor call
  panicked    \* an index was out of bounds: the call unwound

octreeVars  == <<key, path, new_call, faces>>
sourceVars  == <<field, epsilon, cs, pc, a, b, v_a, v_b, it, max_iter, evals, result>>
extractVars == <<positions, normals, buf_faces, normal_at, call, panicked>>
vars        == <<octreeVars, sourceVars, extractVars>>

None    == <<>>
Some(x) == <<x>>

(***************************************************************************)
(* Bounds of the model.                                                    *)
(***************************************************************************)
MaxDepth   == 2   \* child() steps taken from the root
MaxVal     == 3   \* field values range over -MaxVal .. MaxVal
MaxSamples == 3   \* points sampled by a run of classify_segment calls
MaxIter    == 2   \* max_iter ranges over 0 .. MaxIter
MaxOps     == 4   \* Extractor calls made on one buffer

(***************************************************************************)
(* geom.rs                                                                 *)
(***************************************************************************)
Bit(m, k) == (m \div (2 ^ k)) % 2

BMask3_O   == 0
BMask3_X   == 1
BMask3_Y   == 2
BMask3_Z   == 4
BMask3_XY  == 3
BMask3_XZ  == 5
BMask3_YZ  == 6
BMask3_XYZ == 7

BMask3 == 0 .. 7

bits(m) == m

\* BMask3::step: BMask3(self.0 | step.0)
step(m, s) ==
  LET or(k) == IF Bit(m, k) = 1 \/ Bit(s, k) = 1 THEN 2 ^ k ELSE 0
  IN  or(0) + or(1) + or(2)

DirKind_X == 1
DirKind_Y == 2
DirKind_Z == 4

AxisKind_X == 0
AxisKind_Y == 1
AxisKind_Z == 2

RECURSIVE trailing_zeros(_)
trailing_zeros(n) ==
  IF n = 0 THEN 8
  ELSE IF n % 2 = 1 THEN 0 ELSE 1 + trailing_zeros(n \div 2)

\* DirKind::axis: transmute of the discriminant's trailing zero count
DirKind_axis(d) == trailing_zeros(d)

DirKind_to_mask(d) == d

CornerKind_ALL ==
  << BMask3_O, BMask3_X, BMask3_Y, BMask3_Z,
     BMask3_XY, BMask3_XZ, BMask3_YZ, BMask3_XYZ >>

\* EdgeKind(CornerKind, DirKind), in the order of the table in geom.rs
EdgeKind_ALL ==
  << <<BMask3_O,  DirKind_X>>,
     <<BMask3_O,  DirKind_Y>>,
     <<BMask3_O,  DirKind_Z>>,
     <<BMask3_X,  DirKind_Y>>,
     <<BMask3_X,  DirKind_Z>>,
     <<BMask3_Y,  DirKind_X>>,
     <<BMask3_Y,  DirKind_Z>>,
     <<BMask3_Z,  DirKind_X>>,
     <<BMask3_Z,  DirKind_Y>>,
     <<BMask3_XY, DirKind_Z>>,
     <<BMask3_XZ, DirKind_Y>>,
     <<BMask3_XY, DirKind_Z>> >>

EdgeKind_axis(e) == DirKind_axis(e[2])

EdgeKind_endpoints(e) == << e[1], step(e[1], DirKind_to_mask(e[2])) >>

(***************************************************************************)
(* morton.rs.  A key is a u64; within LEVELS child() steps of the root it  *)
(* stays below 2^63, so the shift never drops a bit.                       *)
(***************************************************************************)
LEVELS == 21

root == 0

none == 0

is_none(k) == k # 0

parent(k) == k \div 8

\* (self.0 << 3) | index.bits(), index being the corner mask: the shifted key has its low three bits clear
child(k, mask) == (k * 8) + bits(mask)

RECURSIVE ilog2(_)
ilog2(n) == IF n <= 1 THEN 0 ELSE 1 + ilog2(n \div 2)

checked_ilog2(n) == IF n = 0 THEN None ELSE Some(ilog2(n))

unwrap_or(opt, d) == IF opt = None THEN d ELSE opt[1]

level(k) == unwrap_or(checked_ilog2(k), 0)

(***************************************************************************)
(* topology.rs                                                             *)
(***************************************************************************)
OctreeCell(k) == [key |-> k]

OctreeCell_new(k) == IF ~ is_none(k) THEN Some(OctreeCell(k)) ELSE None

sub_cell(c, corner) == OctreeCell(child(c.key, corner))

sub_cells(c) == [n \in 1 .. 8 |-> sub_cell(c, CornerKind_ALL[n])]

edge_sub_cells(c, e) ==
  LET ends == EdgeKind_endpoints(e)
  IN  << sub_cell(c, ends[1]), sub_cell(c, ends[2]) >>

OctreeFace_from_edge(c, e) ==
  [normal |-> EdgeKind_axis(e), neighbors |-> edge_sub_cells(c, e)]

interior_faces(c) ==
  [n \in 1 .. Len(EdgeKind_ALL) |-> OctreeFace_from_edge(c, EdgeKind_ALL[n])]

(***************************************************************************)
(* glam::Vec3 on the lattice.                                              *)
(***************************************************************************)
vec3(x, y, z) == <<x, y, z>>

vadd(p, q) == <<p[1] + q[1], p[2] + q[2], p[3] + q[3]>>

vsub(p, q) == <<p[1] - q[1], p[2] - q[2], p[3] - q[3]>>

\* Vec3 / f32, rounded to the lattice
vdiv(p, d) == <<p[1] \div d, p[2] \div d, p[3] \div d>>

dot(p, q) == p[1] * q[1] + p[2] * q[2] + p[3] * q[3]

cross(p, q) ==
  << p[2] * q[3] - q[2] * p[3],
     p[3] * q[1] - q[3] * p[1],
     p[1] * q[2] - q[1] * p[2] >>

length_squared(p) == dot(p, p)

abs(v) == IF v < 0 THEN 0 - v ELSE v

is_sign_negative(v) == v < 0

(***************************************************************************)
(* source.rs.  The field is pure: a point sampled twice gives one value.   *)
(* `field` holds the samples taken so far; a point not yet sampled may     *)
(* take any value.                                                         *)
(***************************************************************************)
Values == (0 - MaxVal) .. MaxVal

Epsilons == {1, 2}

\* the segment ends callers pass
Points == { <<0, 0, 0>>, <<2, 0, 0>>, <<4, 0, 0>>, <<1, 1, 0>> }

ValuesAt(f, p) == IF p \in DOMAIN f THEN { f[p] } ELSE Values

Sampled(f, p, v) == [q \in (DOMAIN f) \cup {p} |-> IF q = p THEN v ELSE f[q]]

\* Source::sample
sample(f, p) == f[p]

Sample_new(point, value) == [point |-> point, value |-> value]

ChangesSign(v0, v1) == [kind |-> "ChangesSign", v0 |-> v0, v1 |-> v1]

Intersects(endpoint, v) == [kind |-> "Intersects", endpoint |-> endpoint, value |-> v]

NoSolution == [kind |-> "NoSolution"]

Indeterminate == [kind |-> "Indeterminate"]

Ok(smp) == [kind |-> "Ok", sample |-> smp]

Err_IterLimit(smp) == [kind |-> "IterLimit", sample |-> smp]

Err_NoSolution == [kind |-> "Err_NoSolution"]

Err_Indeterminate == [kind |-> "Err_Indeterminate"]

\* classify_segment with the wrong sample carried by the Start intersection
classify_segment_carries_end_value(f, start, end, eps) ==
  LET v_start == sample(f, start)
      v_end   == sample(f, end)
      near_s  == abs(v_start) <= eps
      near_e  == abs(v_end) <= eps
  IN  IF near_s /\ ~ near_e THEN Intersects("Start", v_end)
      ELSE IF near_s /\ near_e THEN Indeterminate
      ELSE IF ~ near_s /\ near_e THEN NoSolution
      ELSE IF is_sign_negative(v_start) # is_sign_negative(v_end)
           THEN ChangesSign(v_start, v_end)
           ELSE NoSolution

\* classify_segment that also reports an intersection at the End endpoint
classify_segment_reports_end(f, start, end, eps) ==
  LET v_start == sample(f, start)
      v_end   == sample(f, end)
      near_s  == abs(v_start) <= eps
      near_e  == abs(v_end) <= eps
  IN  IF near_s /\ ~ near_e THEN Intersects("Start", v_start)
      ELSE IF near_s /\ near_e THEN Indeterminate
      ELSE IF ~ near_s /\ near_e THEN Intersects("End", v_end)
      ELSE IF is_sign_negative(v_start) # is_sign_negative(v_end)
           THEN ChangesSign(v_start, v_end)
           ELSE NoSolution

\* Source::classify_segment, on a field f that has both ends sampled
classify_segment(f, start, end, eps) ==
  LET v_start == sample(f, start)
      v_end   == sample(f, end)
      near_s  == abs(v_start) <= eps
      near_e  == abs(v_end) <= eps
  IN  IF near_s /\ ~ near_e THEN Intersects("Start", v_start)
      ELSE IF near_s /\ near_e THEN Indeterminate
      ELSE IF ~ near_s /\ near_e THEN NoSolution
      ELSE IF is_sign_negative(v_start) # is_sign_negative(v_end)
           THEN ChangesSign(v_start, v_end)
           ELSE NoSolution

\* Source::find_intersection up to the loop: the match on classify_segment.
\* Some(result) is an early return, None falls through to the bisection.
find_intersection_entry(f, start, end, eps) ==
  LET c == classify_segment(f, start, end, eps)
  IN  IF c.kind = "Intersects"
      THEN IF c.endpoint = "Start"
           THEN Some(Ok(Sample_new(start, c.value)))
           ELSE Some(Ok(Sample_new(end, c.value)))
      ELSE IF c.kind = "NoSolution" THEN Some(Err_NoSolution)
      ELSE IF c.kind = "Indeterminate" THEN Some(Err_Indeterminate)
      ELSE None

midpoint(p, q) == vdiv(vadd(p, q), 2)

\* loop_body that advances the wrong end of the bracket
loop_body_wrong_half(eps, la, lb, lva, lvb, v_c) ==
  LET c == midpoint(la, lb)
      keep(r, s) == [ret |-> r, sampled |-> s,
                     a |-> la, b |-> lb, v_a |-> lva, v_b |-> lvb]
  IN  IF is_sign_negative(lva) = is_sign_negative(lvb)
      THEN keep(Some(Err_NoSolution), FALSE)
      ELSE IF length_squared(vsub(la, lb)) <= eps * eps
      THEN keep(Some(Ok(Sample_new(c, v_c))), TRUE)
      ELSE IF abs(v_c) <= eps
      THEN keep(Some(Ok(Sample_new(c, v_c))), TRUE)
      ELSE IF is_sign_negative(lva) # is_sign_negative(v_c)
      THEN [ret |-> None, sampled |-> TRUE,
            a |-> c, b |-> lb, v_a |-> v_c, v_b |-> lvb]
      ELSE [ret |-> None, sampled |-> TRUE,
            a |-> la, b |-> c, v_a |-> lva, v_b |-> v_c]

\* One pass through the body of `for _ in 0..max_iter`, where v_c is what
\* the field gives at the midpoint c.  ret = Some(r) is `return r`;
\* sampled tells whether the pass evaluated the field at c.
loop_body(eps, la, lb, lva, lvb, v_c) ==
  LET c == midpoint(la, lb)
      keep(r, s) == [ret |-> r, sampled |-> s,
                     a |-> la, b |-> lb, v_a |-> lva, v_b |-> lvb]
  IN  IF is_sign_negative(lva) = is_sign_negative(lvb)
      THEN keep(Some(Err_NoSolution), FALSE)
      ELSE IF length_squared(vsub(la, lb)) <= eps * eps
      THEN keep(Some(Ok(Sample_new(c, v_c))), TRUE)
      ELSE IF abs(v_c) <= eps
      THEN keep(Some(Ok(Sample_new(c, v_c))), TRUE)
      ELSE IF is_sign_negative(lva) # is_sign_negative(v_c)
      THEN [ret |-> None, sampled |-> TRUE,
            a |-> la, b |-> c, v_a |-> lva, v_b |-> v_c]
      ELSE [ret |-> None, sampled |-> TRUE,
            a |-> c, b |-> lb, v_a |-> v_c, v_b |-> lvb]

(***************************************************************************)
(* extractor.rs.  The buffer is IndexedSeparateNormals: vertices.positions, *)
(* vertices.normals and faces.  Indices are u32 and count from zero.       *)
(***************************************************************************)
Buffer(ps, ns, fs) == [positions |-> ps, normals |-> ns, faces |-> fs]

\* v[i as usize]: Some(element), or None where the index panics
index(v, i) == IF i < Len(v) THEN Some(v[i + 1]) ELSE None

\* [T; 3]::reverse
reverse(face) == << face[3], face[2], face[1] >>

plane_normal(points) ==
  cross(vsub(points[2], points[1]), vsub(points[3], points[2]))

\* None where an index of the face has no stored normal
average_vertex_normal(buf, face) ==
  LET n == [j \in 1 .. 3 |-> index(buf.normals, face[j])]
  IN  IF \E j \in 1 .. 3 : n[j] = None THEN None
      ELSE Some(vdiv(vadd(vadd(n[1][1], n[2][1]), n[3][1]), 3))

\* None where an index of the face has no stored position
face_plane_normal(buf, face) ==
  LET q == [j \in 1 .. 3 |-> index(buf.positions, face[j])]
  IN  IF \E j \in 1 .. 3 : q[j] = None THEN None
      ELSE Some(plane_normal(<< q[1][1], q[2][1], q[3][1] >>))

\* extract_vertex that puts the normal at the front of its buffer
extract_vertex_normal_in_front(buf, position, normal) ==
  Buffer(Append(buf.positions, position),
         <<normal>> \o buf.normals,
         buf.faces)

\* Extractor::extract_vertex, where `normal` is source.sample_normal(position)
extract_vertex(buf, position, normal) ==
  Buffer(Append(buf.positions, position),
         Append(buf.normals, normal),
         buf.faces)

\* extract_face that reverses on a positive dot product
extract_face_flips_agreeing(buf, face) ==
  LET normal == average_vertex_normal(buf, face)
      plane  == face_plane_normal(buf, face)
  IN  IF normal = None \/ plane = None
      THEN [panic |-> TRUE, buf |-> buf]
      ELSE LET stored == IF dot(normal[1], plane[1]) > 0
                         THEN reverse(face) ELSE face
           IN  [panic |-> FALSE,
                buf |-> Buffer(buf.positions, buf.normals,
                               Append(buf.faces, stored))]

\* extract_face that stores a triple whose indices it could not resolve
extract_face_unchecked(buf, face) ==
  LET normal == average_vertex_normal(buf, face)
      plane  == face_plane_normal(buf, face)
  IN  IF normal = None \/ plane = None
      THEN [panic |-> FALSE,
            buf |-> Buffer(buf.positions, buf.normals, Append(buf.faces, face))]
      ELSE LET stored == IF dot(normal[1], plane[1]) < 0
                         THEN reverse(face) ELSE face
           IN  [panic |-> FALSE,
                buf |-> Buffer(buf.positions, buf.normals,
                               Append(buf.faces, stored))]

\* Extractor::extract_face: [panic |-> TRUE] where an index is out of
\* bounds, and the buffer as the call leaves it
extract_face(buf, face) ==
  LET normal == average_vertex_normal(buf, face)
      plane  == face_plane_normal(buf, face)
  IN  IF normal = None \/ plane = None
      THEN [panic |-> TRUE, buf |-> buf]
      ELSE LET stored == IF dot(normal[1], plane[1]) < 0
                         THEN reverse(face) ELSE face
           IN  [panic |-> FALSE,
                buf |-> Buffer(buf.positions, buf.normals,
                               Append(buf.faces, stored))]

(***************************************************************************)
(* The states in which a component has not been used.                      *)
(***************************************************************************)
OctreeIdle ==
  /\ key = root /\ path = <<>> /\ new_call = None /\ faces = <<>>

SourceIdle ==
  /\ field = <<>> /\ epsilon = 1 /\ cs = None /\ pc = "idle"
  /\ a = <<0, 0, 0>> /\ b = <<0, 0, 0>> /\ v_a = 0 /\ v_b = 0
  /\ it = 0 /\ max_iter = 0 /\ evals = 0 /\ result = None

ExtractIdle ==
  /\ positions = <<>> /\ normals = <<>> /\ buf_faces = <<>>
  /\ normal_at = <<>> /\ call = None /\ panicked = FALSE

(***************************************************************************)
(* Octree.  A caller walks the tree from the root: it derives a key with   *)
(* child() / parent() or, holding the cell of `key`, takes one of its      *)
(* sub_cells(); on the key it stands at it may call OctreeCell::new and    *)
(* interior_faces().  Both results are the caller's locals for that key.   *)
(***************************************************************************)
InitOctree == OctreeIdle /\ SourceIdle /\ ExtractIdle

\* key = key.child(index)
KeyChild(mask) ==
  /\ UNCHANGED <<sourceVars, extractVars>>
  /\ Len(path) < MaxDepth
  /\ Len(path) < LEVELS
  /\ key' = child(key, mask)
  /\ path' = Append(path, mask)
  /\ new_call' = None
  /\ faces' = <<>>

\* cell = cell.sub_cells()[n]
CellSubCell(n) ==
  /\ UNCHANGED <<sourceVars, extractVars>>
  /\ Len(path) < MaxDepth
  /\ Len(path) < LEVELS
  /\ key' = sub_cells(OctreeCell(key))[n].key
  /\ path' = Append(path, CornerKind_ALL[n])
  /\ new_call' = None
  /\ faces' = <<>>

\* key = key.parent()
KeyParent ==
  /\ UNCHANGED <<sourceVars, extractVars>>
  /\ Len(path) > 0
  /\ key' = parent(key)
  /\ path' = SubSeq(path, 1, Len(path) - 1)
  /\ new_call' = None
  /\ faces' = <<>>

\* OctreeCell::new(key)
CellNew ==
  /\ UNCHANGED <<sourceVars, extractVars>>
  /\ new_call' = Some(OctreeCell_new(key))
  /\ UNCHANGED <<key, path, faces>>

\* cell.interior_faces(), collected
CellInteriorFaces ==
  /\ UNCHANGED <<sourceVars, extractVars>>
  /\ faces' = interior_faces(OctreeCell(key))
  /\ UNCHANGED <<key, path, new_call>>

NextOctree ==
  \/ \E mask \in BMask3 : KeyChild(mask)
  \/ \E n \in 1 .. 8 : CellSubCell(n)
  \/ KeyParent
  \/ CellNew
  \/ CellInteriorFaces

SpecOctree == InitOctree /\ [][NextOctree]_vars

(***************************************************************************)
(* Segment classification: a caller classifies segments of one field.      *)
(***************************************************************************)
InitClassify == OctreeIdle /\ SourceIdle /\ ExtractIdle

\* source.classify_segment(start, end, eps)
ClassifySegment(start, end, eps) ==
  /\ UNCHANGED <<octreeVars, extractVars>>
  /\ start # end
  /\ eps > 0
  /\ \E vs \in ValuesAt(field, start) :
       \E ve \in ValuesAt(Sampled(field, start, vs), end) :
         LET f2 == Sampled(Sampled(field, start, vs), end, ve)
         IN  /\ Cardinality(DOMAIN f2) <= MaxSamples
             /\ field' = f2
             /\ cs' = Some([start |-> start, end |-> end, epsilon |-> eps,
                            ret |-> classify_segment(f2, start, end, eps)])
  /\ UNCHANGED <<epsilon, pc, a, b, v_a, v_b, it, max_iter, evals, result>>

NextClassify ==
  \E start, end \in Points : \E eps \in Epsilons :
    ClassifySegment(start, end, eps)

SpecClassify == InitClassify /\ [][NextClassify]_vars

(***************************************************************************)
(* Root finding: one find_intersection call at a time, stepped through     *)
(* its loop.                                                               *)
(***************************************************************************)
InitFind == OctreeIdle /\ SourceIdle /\ ExtractIdle

\* source.find_intersection(start, end, eps, n), up to the first iteration
FindIntersection(start, end, eps, n) ==
  /\ UNCHANGED <<octreeVars, extractVars>>
  /\ pc = "idle"
  /\ start # end
  /\ eps > 0
  /\ \E vs \in ValuesAt(field, start) :
       \E ve \in ValuesAt(Sampled(field, start, vs), end) :
         LET f2    == Sampled(Sampled(field, start, vs), end, ve)
             early == find_intersection_entry(f2, start, end, eps)
         IN  /\ field' = f2
             /\ cs' = Some([start |-> start, end |-> end, epsilon |-> eps,
                            ret |-> classify_segment(f2, start, end, eps)])
             /\ result' = early
             /\ pc' = IF early = None THEN "loop" ELSE "done"
             /\ IF early = None
                THEN /\ a' = start
                     /\ b' = end
                     /\ v_a' = sample(f2, start)
                     /\ v_b' = sample(f2, end)
                ELSE UNCHANGED <<a, b, v_a, v_b>>
  /\ epsilon' = eps
  /\ max_iter' = n
  /\ it' = 0
  /\ evals' = 0

\* one iteration of the for loop
LoopIter ==
  /\ UNCHANGED <<octreeVars, extractVars>>
  /\ pc = "loop"
  /\ it < max_iter
  /\ \E v_c \in ValuesAt(field, midpoint(a, b)) :
       LET r == loop_body(epsilon, a, b, v_a, v_b, v_c)
       IN  /\ field' = IF r.sampled THEN Sampled(field, midpoint(a, b), v_c) ELSE field
           /\ evals' = IF r.sampled THEN evals + 1 ELSE evals
           /\ a' = r.a
           /\ b' = r.b
           /\ v_a' = r.v_a
           /\ v_b' = r.v_b
           /\ result' = r.ret
           /\ pc' = IF r.ret = None THEN "loop" ELSE "done"
           /\ it' = IF r.ret = None THEN it + 1 ELSE it
  /\ UNCHANGED <<epsilon, cs, max_iter>>

\* the range 0..max_iter is exhausted: Err(IterLimit(best))
LoopExit ==
  /\ UNCHANGED <<octreeVars, extractVars>>
  /\ pc = "loop"
  /\ it >= max_iter
  /\ \E v \in ValuesAt(field, midpoint(a, b)) :
       /\ field' = Sampled(field, midpoint(a, b), v)
       /\ result' = Some(Err_IterLimit(Sample_new(midpoint(a, b), v)))
  /\ pc' = "done"
  /\ UNCHANGED <<epsilon, cs, a, b, v_a, v_b, it, max_iter, evals>>

\* the caller takes the result; the next call may meet any field
Return ==
  /\ UNCHANGED <<octreeVars, extractVars>>
  /\ pc = "done"
  /\ field' = <<>> /\ epsilon' = 1 /\ cs' = None /\ pc' = "idle"
  /\ a' = <<0, 0, 0>> /\ b' = <<0, 0, 0>> /\ v_a' = 0 /\ v_b' = 0
  /\ it' = 0 /\ max_iter' = 0 /\ evals' = 0 /\ result' = None

NextFind ==
  \/ \E start, end \in Points : \E eps \in Epsilons : \E n \in 0 .. MaxIter :
       FindIntersection(start, end, eps, n)
  \/ LoopIter
  \/ LoopExit
  \/ Return

SpecFind == InitFind /\ [][NextFind]_vars

\* the loop is sequential code: a call that is running keeps running
FairSpecFind == SpecFind /\ WF_vars(LoopIter) /\ WF_vars(LoopExit)

(***************************************************************************)
(* Mesh extraction: a driver feeds vertices and triangles to one           *)
(* WithIndexedSeparateNormals over an empty buffer and a pure Hermite      *)
(* source.  A panic unwinds the call and ends the pass.                    *)
(***************************************************************************)
\* the positions the driver extracts
VertexPoints == { <<0, 0, 0>>, <<1, 0, 0>>, <<0, 1, 0>> }

\* the normals the source may give (thirds of the lattice unit, so that
\* the mean of three is on the lattice)
Normals == { <<0, 0, 3>>, <<0, 0, -3>>, <<3, 0, 0>> }

NormalsAt(p) == IF p \in DOMAIN normal_at THEN { normal_at[p] } ELSE Normals

InitExtract == OctreeIdle /\ SourceIdle /\ ExtractIdle

Calls == Len(positions) + Len(buf_faces)

\* extractor.extract_vertex(position)
ExtractVertex(position) ==
  /\ UNCHANGED <<octreeVars, sourceVars>>
  /\ ~ panicked
  /\ Calls < MaxOps
  /\ \E normal \in NormalsAt(position) :
       LET out == extract_vertex(Buffer(positions, normals, buf_faces),
                                 position, normal)
       IN  /\ normal_at' = Sampled(normal_at, position, normal)
           /\ positions' = out.positions
           /\ normals' = out.normals
           /\ buf_faces' = out.faces
  /\ call' = Some([op |-> "extract_vertex", arg |-> position])
  /\ UNCHANGED panicked

\* extractor.extract_face(face)
ExtractFace(face) ==
  /\ UNCHANGED <<octreeVars, sourceVars>>
  /\ ~ panicked
  /\ Calls < MaxOps
  /\ LET out == extract_face(Buffer(positions, normals, buf_faces), face)
     IN  /\ panicked' = out.panic
         /\ positions' = out.buf.positions
         /\ normals' = out.buf.normals
         /\ buf_faces' = out.buf.faces
  /\ call' = Some([op |-> "extract_face", arg |-> face])
  /\ UNCHANGED normal_at

\* the index triples a driver may pass: stored vertices and one index past
Indices == 0 .. Len(positions)

NextExtract ==
  \/ \E position \in VertexPoints : ExtractVertex(position)
  \/ \E i, j, k \in Indices : ExtractFace(<<i, j, k>>)

SpecExtract == InitExtract /\ [][NextExtract]_vars

(***************************************************************************)
(* Octree claims.                                                          *)
(***************************************************************************)
RECURSIVE KeyOfPath(_)
KeyOfPath(p) ==
  IF p = <<>> THEN root
  ELSE child(KeyOfPath(SubSeq(p, 1, Len(p) - 1)), p[Len(p)])

Paths == UNION { [1 .. n -> BMask3] : n \in 0 .. MaxDepth }

DifferInOneBit(c1, c2) ==
  Cardinality({ k \in 0 .. 2 : Bit(c1, k) # Bit(c2, k) }) = 1

DifferingAxis(c1, c2) == CHOOSE k \in 0 .. 2 : Bit(c1, k) # Bit(c2, k)

\* C2: interior_faces() yields 12 pairwise distinct faces, one per edge of the
\* parent cube: every pair of sub-cells whose corner masks differ in exactly
\* one bit is the neighbour pair of exactly one face, each face has two
\* distinct neighbours, and its normal is the axis of the differing bit.
C2_InteriorFacesCoverEdges ==
  faces # <<>> =>
    LET c == OctreeCell(key)
        pair(n) == { faces[n].neighbors[1], faces[n].neighbors[2] }
    IN  /\ Len(faces) = 12
        /\ \A m, n \in 1 .. Len(faces) : m # n => faces[m] # faces[n]
        /\ \A c1, c2 \in BMask3 :
             (c1 < c2 /\ DifferInOneBit(c1, c2)) =>
               Cardinality({ n \in 1 .. Len(faces) :
                              pair(n) = { sub_cell(c, c1), sub_cell(c, c2) } }) = 1
        /\ \A n \in 1 .. Len(faces) :
             LET m1 == faces[n].neighbors[1].key % 8
                 m2 == faces[n].neighbors[2].key % 8
             IN  /\ faces[n].neighbors[1] # faces[n].neighbors[2]
                 /\ DifferInOneBit(m1, m2)
                 /\ faces[n].normal = DifferingAxis(m1, m2)

\* C3: OctreeCell::new returns a cell for the root key and for every key
\* obtained from the root by child() steps; it never returns the absent
\* result for such a key.
C3_NewAcceptsReachableKeys ==
  new_call # None => new_call[1] # None

\* C4: two cells reached from root() by different sequences of child(mask)
\* selections have different keys; in particular a child's key differs from
\* its parent's key.
C4_KeysAreCanonical ==
  \A p \in Paths : p # path => KeyOfPath(p) # key

\* C5: level() returns the depth of the key: n child() steps from the root
\* give level n.
C5_LevelIsDepth ==
  level(key) = Len(path)

(***************************************************************************)
(* Source claims.                                                          *)
(***************************************************************************)
Near(v, eps) == abs(v) <= eps

\* C1 as stated: when exactly one endpoint sample lies within epsilon of
\* zero, classify_segment reports an endpoint intersection naming that
\* endpoint (Start or End) and carrying that endpoint's value.
C1_OneNearEndpointIntersects ==
  cs # None =>
    LET c  == cs[1]
        vs == field[c.start]
        ve == field[c.end]
    IN  /\ (Near(vs, c.epsilon) /\ ~ Near(ve, c.epsilon))
             => c.ret = Intersects("Start", vs)
        /\ (~ Near(vs, c.epsilon) /\ Near(ve, c.epsilon))
             => c.ret = Intersects("End", ve)

\* C1 as amended: when only the start sample lies within epsilon of zero,
\* classify_segment reports an endpoint intersection naming Start with the
\* start value; when only the end sample does, it reports no-solution and
\* leaves the crossing to the segment that starts there.
C1_OnlyStartIntersects ==
  cs # None =>
    LET c  == cs[1]
        vs == field[c.start]
        ve == field[c.end]
    IN  /\ (Near(vs, c.epsilon) /\ ~ Near(ve, c.epsilon))
             => c.ret = Intersects("Start", vs)
        /\ (~ Near(vs, c.epsilon) /\ Near(ve, c.epsilon))
             => c.ret = NoSolution

C1_Witness ==
  /\ cs # None
  /\ ~ Near(field[cs[1].start], cs[1].epsilon)
  /\ Near(field[cs[1].end], cs[1].epsilon)
  /\ cs[1].ret = NoSolution
  /\ \E p \in DOMAIN field :
       /\ ~ Near(field[p], cs[1].epsilon)
       /\ p # cs[1].end
       /\ classify_segment(field, cs[1].end, p, cs[1].epsilon).kind = "Intersects"

\* C9: no classify_segment call reports an intersection when both endpoints
\* are within epsilon, a reported intersection names an endpoint that is
\* within epsilon while the other is not, and for points A, P, B of one field
\* with |f(P)| <= epsilon < |f(A)|, |f(B)|, exactly one of the consecutive
\* segments (A, P) and (P, B) reports an endpoint intersection, at P.
C9_CrossingOwnedByOneSegment ==
  cs # None =>
    LET c   == cs[1]
        eps == c.epsilon
        own(r, p) == r.kind = "Intersects" /\ r.value = field[p]
    IN  /\ c.ret.kind = "Intersects" =>
             LET named == IF c.ret.endpoint = "Start" THEN c.start ELSE c.end
                 other == IF c.ret.endpoint = "Start" THEN c.end ELSE c.start
             IN  /\ Near(field[named], eps)
                 /\ ~ Near(field[other], eps)
                 /\ c.ret.value = field[named]
        /\ \A A, P, B \in DOMAIN field :
             ( /\ A # P /\ P # B
               /\ Near(field[P], eps)
               /\ ~ Near(field[A], eps)
               /\ ~ Near(field[B], eps)
               /\ \/ (c.start = A /\ c.end = P)
                  \/ (c.start = P /\ c.end = B) )
             => LET r1 == IF c.start = A /\ c.end = P
                          THEN c.ret ELSE classify_segment(field, A, P, eps)
                    r2 == IF c.start = P /\ c.end = B
                          THEN c.ret ELSE classify_segment(field, P, B, eps)
                IN  /\ (r1.kind = "Intersects") # (r2.kind = "Intersects")
                    /\ r1.kind = "Intersects" => own(r1, P)
                    /\ r2.kind = "Intersects" => own(r2, P)

C9_Witness ==
  /\ cs # None
  /\ cs[1].ret.kind = "Intersects"
  /\ \E A \in DOMAIN field :
       /\ A # cs[1].start
       /\ A # cs[1].end
       /\ ~ Near(field[A], cs[1].epsilon)
       /\ classify_segment(field, A, cs[1].start, cs[1].epsilon) = NoSolution

C10_Safe ==
  /\ it <= max_iter
  /\ evals <= max_iter
  /\ pc = "loop" =>
       /\ cs[1].ret.kind = "ChangesSign"
       /\ is_sign_negative(v_a) # is_sign_negative(v_b)
       /\ v_a = field[a]
       /\ v_b = field[b]
       /\ evals = it
  /\ (pc = "done" /\ cs[1].ret.kind = "ChangesSign") =>
       LET r == result[1]
           c == midpoint(a, b)
       IN  /\ is_sign_negative(v_a) # is_sign_negative(v_b)
           /\ r.kind \in {"Ok", "IterLimit"}
           /\ r.sample = Sample_new(c, field[c])
           /\ r.kind = "Ok" =>
                /\ it < max_iter
                /\ \/ Near(r.sample.value, epsilon)
                   \/ length_squared(vsub(a, b)) <= epsilon * epsilon
           /\ r.kind = "IterLimit" => it = max_iter

\* C10: on a segment classified as a sign change, find_intersection makes at
\* most max_iter passes (one midpoint evaluation each), keeps the bracket's
\* ends on opposite signs, and ends: with success at the midpoint (value
\* within epsilon, or bracket within epsilon), or, once the budget is spent
\* (max_iter = 0 included), with the iteration-limit failure carrying the
\* sample at the midpoint of the final bracket.
C10_BisectionTerminates ==
  /\ [] C10_Safe
  /\ (pc = "loop") ~> (pc = "done")

C10_Witness ==
  /\ pc = "done"
  /\ cs[1].ret.kind = "ChangesSign"
  /\ result[1].kind = "IterLimit"
  /\ it = max_iter
  /\ it >= 2
  /\ a # cs[1].start
  /\ b # cs[1].end

(***************************************************************************)
(* Extractor claims.                                                       *)
(***************************************************************************)
Buf == Buffer(positions, normals, buf_faces)

OutOfBounds(face) == \E j \in 1 .. 3 : face[j] >= Len(positions)

\* C6: after extract_face([i, j, k]) over stored vertices, if the averaged
\* vertex normal and the plane normal of (p_i, p_j, p_k) have a negative dot
\* product the stored triple is [k, j, i] and the plane normal of the stored
\* order has a non-negative dot product with the averaged normal; otherwise
\* the triple is stored as given.
C6_WindingFollowsNormal ==
  (call # None /\ call[1].op = "extract_face" /\ ~ panicked) =>
    LET face   == call[1].arg
        stored == buf_faces[Len(buf_faces)]
        avg    == average_vertex_normal(Buf, face)[1]
        before == face_plane_normal(Buf, face)[1]
        after  == face_plane_normal(Buf, stored)[1]
    IN  IF dot(avg, before) < 0
        THEN stored = << face[3], face[2], face[1] >> /\ dot(avg, after) >= 0
        ELSE stored = face

C6_Witness ==
  /\ call # None
  /\ call[1].op = "extract_face"
  /\ ~ panicked
  /\ buf_faces[Len(buf_faces)] # call[1].arg
  /\ dot(average_vertex_normal(Buf, call[1].arg)[1],
         face_plane_normal(Buf, call[1].arg)[1]) < 0

C7_Aligned ==
  /\ Len(positions) = Len(normals)
  /\ \A n \in 1 .. Len(positions) :
       /\ positions[n] \in DOMAIN normal_at
       /\ normals[n] = normal_at[positions[n]]

\* C7: from an empty buffer, after any sequence of extract_vertex and
\* extract_face calls the position and normal buffers have one length and
\* normals[i] is the source's normal at positions[i]; each extract_vertex
\* appends exactly one entry to each buffer, and extract_face leaves both
\* unchanged.
C7_BuffersStayAligned ==
  /\ [] C7_Aligned
  /\ [][ (call' # None /\ call'[1].op = "extract_vertex") =>
           /\ positions' = Append(positions, call'[1].arg)
           /\ normals' = Append(normals, normal_at'[call'[1].arg])
           /\ buf_faces' = buf_faces ]_vars
  /\ [][ (call' # None /\ call'[1].op = "extract_face") =>
           /\ positions' = positions
           /\ normals' = normals ]_vars

C7_Witness ==
  /\ Len(positions) = 3
  /\ Len(normals) = 3
  /\ Len(buf_faces) = 1
  /\ normals[1] # normals[3]

C8_IndicesValid ==
  \A n \in 1 .. Len(buf_faces) : \A j \in 1 .. 3 :
    buf_faces[n][j] < Len(positions)

\* C8: from an empty buffer, every index of every stored triple is smaller
\* than the number of stored vertices, and an extract_face call naming an
\* index with no stored vertex adds no triple to the face buffer.
C8_FacesReferenceVertices ==
  /\ [] C8_IndicesValid
  /\ [][ ( /\ call' # None
           /\ call'[1].op = "extract_face"
           /\ OutOfBounds(call'[1].arg) )
           => buf_faces' = buf_faces ]_vars

C8_Witness ==
  /\ panicked
  /\ call[1].op = "extract_face"
  /\ OutOfBounds(call[1].arg)
  /\ Len(buf_faces) >= 1
  /\ Len(positions) >= 2

====
